---- MODULE Spec2Model ----
(***************************************************************************)
(* Model of common/cacheLimiter.go: a shared byte counter bounded by a     *)
(* limit, with a non-blocking TryAddBytes (atomic add, then rollback when  *)
(* over the threshold), a polling WaitUntilAddBytes with cancellation, and *)
(* RemoveBytes.  Every atomic.AddInt64 is one step of the model; the code  *)
(* between two atomic operations only touches locals and is merged into    *)
(* the step that precedes it.                                              *)
(***************************************************************************)
EXTENDS Integers, Naturals, Sequences, FiniteSets, Bags, TLC

VARIABLES
    value,            \* cacheLimiter.value
    limit,            \* cacheLimiter.limit
    pc,               \* pc[p]: where goroutine p stands in its current call
    op,               \* op[p]: the operation goroutine p is running ("none" between calls)
    count,            \* count[p]: the count argument of the running call
    useRelaxedLimit,  \* useRelaxedLimit[p]: the flag of the current TryAddBytes
    lim,              \* lim[p]: the local lim of the current TryAddBytes
    result,           \* result[p]: what the call returned ("none" while running)
    ctx,              \* the context the callers wait under: "none", or its error once fired
    held,             \* bag of the admissions the callers have not released yet
    ledger,           \* admitted counts minus RemoveBytes counts so far
    netDelta,         \* netDelta[p]: what p's current call has added to value
    refused,          \* refused[p]: an attempt of p's current call was refused
    history           \* the calls made so far, with their results (sequential callers only)

vars == <<value, limit, pc, op, count, useRelaxedLimit, lim, result, ctx,
          held, ledger, netDelta, refused, history>>

----------------------------------------------------------------------------
(* Bounds of the model *)

NumProcs == 2
MaxLimit == 3
MaxCount == 2
MaxHeld == 3
MaxCalls == 4

Procs == DOMAIN pc
\* the counts the concurrent callers ask for: a small one and a large one
Counts == {1, MaxCount}
Errors == {"Canceled", "DeadlineExceeded"}

----------------------------------------------------------------------------
(* int64(float32(lim) * 0.75) *)

Abs(n) == IF n < 0 THEN -n ELSE n

RECURSIVE Ulp(_, _)
\* the spacing of float32 values around m >= 0: the least power of two u
\* (starting from u) with m \div u < 2^24
Ulp(m, u) == IF m \div u < 16777216 THEN u ELSE Ulp(m, 2 * u)

\* m >= 0 rounded to a 24-bit significand, ties to even
RoundToEven24(m) ==
    LET u == Ulp(m, 1)
        q == m \div u
        r == m - q * u
    IN  IF 2 * r > u \/ (2 * r = u /\ q % 2 = 1) THEN (q + 1) * u ELSE q * u

\* float32(n) for an integer n
Float32(n) == IF n < 0 THEN -RoundToEven24(-n) ELSE RoundToEven24(n)

\* int64(float32(l) * 0.75): the product is held in quarters (3x/4), rounded
\* to float32, and the conversion to int64 truncates toward zero
StrictLimit(l) ==
    LET x == Float32(l)
        quarters == RoundToEven24(3 * Abs(x))
        t == quarters \div 4
    IN  IF x < 0 THEN -t ELSE t

\* the strict branch of line 58 never taken
EffectiveLimitNeverStrict(l, relaxed) == l

\* lines 53-60 of TryAddBytes
EffectiveLimit(l, relaxed) == IF relaxed THEN l ELSE StrictLimit(l)

\* line 62 with < in place of <=
WithinLimitExclusive(newValue, l) == newValue < l

\* line 62 letting one byte more than lim through
WithinLimitOffByOne(newValue, l) == newValue <= l + 1

\* the comparison of line 62
WithinLimit(newValue, l) == newValue <= l

\* atomic.AddInt64(&c.value, delta)
AddInt64(v, delta) == v + delta

----------------------------------------------------------------------------
(* The operations of cacheLimiter.  They constrain the limiter and the      *)
(* locals of the call; what the callers keep (held, ledger, netDelta,       *)
(* history) is constrained by the steps further down.  The parameters and     *)
(* locals of a call that has returned are reset: only result stays.         *)

\* a call of TryAddBytes(c, relaxed) up to, not including, line 62
BeginTryAdd(p, c, relaxed) ==
    /\ pc[p] = "idle"
    /\ pc' = [pc EXCEPT ![p] = "add"]
    /\ op' = [op EXCEPT ![p] = "TryAdd"]
    /\ count' = [count EXCEPT ![p] = c]
    /\ useRelaxedLimit' = [useRelaxedLimit EXCEPT ![p] = relaxed]
    /\ lim' = [lim EXCEPT ![p] = EffectiveLimit(limit, relaxed)]
    /\ result' = [result EXCEPT ![p] = "none"]
    /\ UNCHANGED <<value, limit, ctx>>

\* a WaitUntilAddBytes that goes to the select of line 79 before it makes
\* its first attempt
BeginWaitPollsFirst(p, c, b) ==
    /\ pc[p] = "idle"
    /\ pc' = [pc EXCEPT ![p] = "select"]
    /\ op' = [op EXCEPT ![p] = "Wait"]
    /\ count' = [count EXCEPT ![p] = c]
    /\ useRelaxedLimit' = [useRelaxedLimit EXCEPT ![p] = FALSE]
    /\ lim' = [lim EXCEPT ![p] = 0]
    /\ result' = [result EXCEPT ![p] = "none"]
    /\ UNCHANGED <<value, limit, ctx>>

\* a call of WaitUntilAddBytes(ctx, c, useRelaxedLimit) up to, not
\* including, line 62 of its first TryAddBytes: the Predicate, evaluated at
\* line 74, answers b (the context may have fired already)
BeginWait(p, c, b) ==
    /\ pc[p] = "idle"
    /\ pc' = [pc EXCEPT ![p] = "add"]
    /\ op' = [op EXCEPT ![p] = "Wait"]
    /\ count' = [count EXCEPT ![p] = c]
    /\ useRelaxedLimit' = [useRelaxedLimit EXCEPT ![p] = b]
    /\ lim' = [lim EXCEPT ![p] = EffectiveLimit(limit, b)]
    /\ result' = [result EXCEPT ![p] = "none"]
    /\ UNCHANGED <<value, limit, ctx>>

\* the call of p returns r
Return(p, r) ==
    /\ pc' = [pc EXCEPT ![p] = "idle"]
    /\ op' = [op EXCEPT ![p] = "none"]
    /\ count' = [count EXCEPT ![p] = 0]
    /\ useRelaxedLimit' = [useRelaxedLimit EXCEPT ![p] = FALSE]
    /\ lim' = [lim EXCEPT ![p] = 0]
    /\ result' = [result EXCEPT ![p] = r]

\* lines 62-64: the atomic add and the test of what it returned; a value
\* within lim ends TryAddBytes with true (and WaitUntilAddBytes with nil,
\* lines 74-76)
TryAddAtomicAdd(p) ==
    /\ pc[p] = "add"
    /\ value' = AddInt64(value, count[p])
    /\ IF WithinLimit(value', lim[p])
       THEN Return(p, IF op[p] = "Wait" THEN "nil" ELSE "true")
       ELSE /\ pc' = [pc EXCEPT ![p] = "rollback"]
            /\ UNCHANGED <<op, count, useRelaxedLimit, lim, result>>
    /\ UNCHANGED <<limit, ctx>>

\* lines 66-67 with a rollback that gives back one byte too few
TryAddRollbackShort(p) ==
    /\ pc[p] = "rollback"
    /\ value' = AddInt64(value, -(count[p] - 1))
    /\ IF op[p] = "Wait"
       THEN /\ pc' = [pc EXCEPT ![p] = "select"]
            /\ useRelaxedLimit' = [useRelaxedLimit EXCEPT ![p] = FALSE]
            /\ lim' = [lim EXCEPT ![p] = 0]
            /\ UNCHANGED <<op, count, result>>
       ELSE Return(p, "false")
    /\ UNCHANGED <<limit, ctx>>

\* lines 66-67 with every refused call, TryAddBytes included, suspended at a
\* select afterwards
TryAddRollbackSuspends(p) ==
    /\ pc[p] = "rollback"
    /\ value' = AddInt64(value, -count[p])
    /\ pc' = [pc EXCEPT ![p] = "select"]
    /\ useRelaxedLimit' = [useRelaxedLimit EXCEPT ![p] = FALSE]
    /\ lim' = [lim EXCEPT ![p] = 0]
    /\ UNCHANGED <<op, count, result>>
    /\ UNCHANGED <<limit, ctx>>

\* lines 66-67: the atomic subtraction and return false; in
\* WaitUntilAddBytes control then reaches the select of line 79
TryAddRollback(p) ==
    /\ pc[p] = "rollback"
    /\ value' = AddInt64(value, -count[p])
    /\ IF op[p] = "Wait"
       THEN /\ pc' = [pc EXCEPT ![p] = "select"]
            /\ useRelaxedLimit' = [useRelaxedLimit EXCEPT ![p] = FALSE]
            /\ lim' = [lim EXCEPT ![p] = 0]
            /\ UNCHANGED <<op, count, result>>
       ELSE Return(p, "false")
    /\ UNCHANGED <<limit, ctx>>

\* line 81 returning context.Canceled whatever the context says
CtxErrAlwaysCanceled(c) == "Canceled"

\* ctx.Err() of a fired context
CtxErr(c) == c

\* lines 80-81 going round the loop again instead of returning
WaitCancelledRetries(p) ==
    /\ pc[p] = "select"
    /\ ctx # "none"
    /\ pc' = [pc EXCEPT ![p] = "add"]
    /\ lim' = [lim EXCEPT ![p] = EffectiveLimit(limit, FALSE)]
    /\ UNCHANGED <<value, limit, op, count, useRelaxedLimit, result, ctx>>

\* lines 80-81: ctx.Done() is ready, the call returns ctx.Err()
WaitCancelled(p) ==
    /\ pc[p] = "select"
    /\ ctx # "none"
    /\ Return(p, CtxErr(ctx))
    /\ UNCHANGED <<value, limit, ctx>>

\* lines 82-90, then 72-74 with a retry that tests against the strict
\* threshold whatever the Predicate answers
WaitTimerStrictRetry(p, b) ==
    /\ pc[p] = "select"
    /\ pc' = [pc EXCEPT ![p] = "add"]
    /\ useRelaxedLimit' = [useRelaxedLimit EXCEPT ![p] = b]
    /\ lim' = [lim EXCEPT ![p] = EffectiveLimit(limit, FALSE)]
    /\ UNCHANGED <<value, limit, op, count, result, ctx>>

\* lines 82-90, then 72-74: the timer channel is ready and the loop goes
\* round again: the Predicate is evaluated anew, it answers b, and
\* TryAddBytes is entered with that answer.  The delay is
\* 2s * rand.Float32(), which may be zero, and select picks among the ready
\* cases at random, so a fired context does not disable this case.
WaitTimer(p, b) ==
    /\ pc[p] = "select"
    /\ pc' = [pc EXCEPT ![p] = "add"]
    /\ useRelaxedLimit' = [useRelaxedLimit EXCEPT ![p] = b]
    /\ lim' = [lim EXCEPT ![p] = EffectiveLimit(limit, b)]
    /\ UNCHANGED <<value, limit, op, count, result, ctx>>

\* lines 94-97 with the subtraction made twice
RemoveBytesTwice(c) ==
    /\ LET negativeDelta == -c IN
           value' = AddInt64(AddInt64(value, negativeDelta), negativeDelta)
    /\ UNCHANGED <<limit, pc, op, count, useRelaxedLimit, lim, result, ctx>>

\* lines 94-97: RemoveBytes(c), one atomic add of -c
RemoveBytes(c) ==
    /\ LET negativeDelta == -c IN value' = AddInt64(value, negativeDelta)
    /\ UNCHANGED <<limit, pc, op, count, useRelaxedLimit, lim, result, ctx>>

\* the context fires with error e: from now on ctx.Done() is ready and
\* ctx.Err() is e
Cancel(e) ==
    /\ ctx = "none"
    /\ ctx' = e
    /\ UNCHANGED <<value, limit, pc, op, count, useRelaxedLimit, lim, result>>

----------------------------------------------------------------------------
(* Callers *)

\* the step of p's call has changed value by value' - value
Track(p) == netDelta' = [netDelta EXCEPT ![p] = @ + (value' - value)]

\* p's call returns success in this step
Admitted(p) == result[p] = "none" /\ result'[p] \in {"true", "nil"}

\* the ledger gains the count of a call that returns success
Credit(p) == ledger' = IF Admitted(p) THEN ledger + count[p] ELSE ledger

\* the callers hold what a call that returns success was admitted
Hold(p) ==
    held' = IF Admitted(p)
            THEN held (+) SetToBag({[count |-> count[p],
                                     relaxed |-> useRelaxedLimit[p]]})
            ELSE held

\* the add of this step was over the limit: the attempt is refused
Refusal(p) == refused' = [refused EXCEPT ![p] = @ \/ pc'[p] = "rollback"]

\* a call of p begins
Fresh(p) ==
    /\ netDelta' = [netDelta EXCEPT ![p] = 0]
    /\ refused' = [refused EXCEPT ![p] = FALSE]

\* what the callers record at a step of a call of p
Caller(p) == Track(p) /\ Credit(p) /\ Hold(p) /\ Refusal(p) /\ UNCHANGED history

\* the steps of a call of p
Add(p) == TryAddAtomicAdd(p) /\ Caller(p)

Rollback(p) == TryAddRollback(p) /\ Caller(p)

Cancelled(p) == WaitCancelled(p) /\ Caller(p)

Timer(p) == \E b \in BOOLEAN : WaitTimer(p, b) /\ Caller(p)

\* the state after NewCacheLimiter(l), once the callers P hold the
\* admissions h, which come to v bytes
InitProcs(P, l, v, h) ==
    /\ limit = l
    /\ value = v
    /\ pc = [p \in P |-> "idle"]
    /\ op = [p \in P |-> "none"]
    /\ count = [p \in P |-> 0]
    /\ useRelaxedLimit = [p \in P |-> FALSE]
    /\ lim = [p \in P |-> 0]
    /\ result = [p \in P |-> "none"]
    /\ ctx = "none"
    /\ held = h
    /\ ledger = v
    /\ netDelta = [p \in P |-> 0]
    /\ refused = [p \in P |-> FALSE]
    /\ history = << >>

----------------------------------------------------------------------------
(* Spec: concurrent callers that ask for positive counts and release what   *)
(* they were admitted, each admission once, with the count it was given.    *)

Init == InitProcs(1..NumProcs, MaxLimit, 0, EmptyBag)

\* the callers keep at most MaxHeld admissions, counting the calls running
Room == BagCardinality(held) + Cardinality({q \in Procs : pc[q] # "idle"}) < MaxHeld

CallTryAdd(p) ==
    \E c \in Counts, relaxed \in BOOLEAN :
        /\ Room
        /\ BeginTryAdd(p, c, relaxed)
        /\ Fresh(p)
        /\ UNCHANGED <<held, ledger, history>>

CallWait(p) ==
    \E c \in Counts, b \in BOOLEAN :
        /\ Room
        /\ BeginWait(p, c, b)
        /\ Fresh(p)
        /\ UNCHANGED <<held, ledger, history>>

\* a caller releases an admission r it holds
Release(r) ==
    /\ RemoveBytes(r.count)
    /\ held' = held (-) SetToBag({r})
    /\ ledger' = ledger - r.count
    /\ UNCHANGED <<netDelta, refused, history>>

Fire ==
    /\ \E e \in Errors : Cancel(e)
    /\ UNCHANGED <<held, ledger, netDelta, refused, history>>

Next ==
    \/ \E p \in Procs : CallTryAdd(p)
    \/ \E p \in Procs : CallWait(p)
    \/ \E p \in Procs : Add(p)
    \/ \E p \in Procs : Rollback(p)
    \/ \E p \in Procs : Cancelled(p)
    \/ \E p \in Procs : Timer(p)
    \/ Fire
    \/ \E r \in BagToSet(held) : Release(r)

Spec == Init /\ [][Next]_vars

TypeOK ==
    /\ value \in Int /\ limit \in Int
    /\ \A p \in Procs :
        /\ pc[p] \in {"idle", "add", "rollback", "select"}
        /\ op[p] \in {"none", "TryAdd", "Wait"}
        /\ result[p] \in {"none", "true", "false", "nil"} \cup Errors
    /\ ctx \in {"none"} \cup Errors


----------------------------------------------------------------------------
(* SpecSeq: one caller, one call at a time, any counts, nothing matched.    *)

SeqCounts == {-1, 1, 25, 50, 100}

InitSeq == InitProcs({1}, 100, 0, EmptyBag)

SeqTryAdd ==
    \E c \in SeqCounts, relaxed \in BOOLEAN :
        /\ Len(history) < MaxCalls
        /\ BeginTryAdd(1, c, relaxed)
        /\ history' = Append(history, [op |-> "TryAdd", count |-> c,
                                       relaxed |-> relaxed, result |-> "none"])
        /\ Fresh(1)
        /\ UNCHANGED <<held, ledger>>

SeqRun ==
    /\ \/ TryAddAtomicAdd(1)
       \/ TryAddRollback(1)
    /\ Track(1)
    /\ Credit(1)
    /\ Refusal(1)
    /\ history' = [history EXCEPT ![Len(history)].result = result'[1]]
    /\ UNCHANGED held

SeqRemove ==
    \E c \in SeqCounts :
        /\ pc[1] = "idle"
        /\ Len(history) < MaxCalls
        /\ RemoveBytes(c)
        /\ history' = Append(history, [op |-> "RemoveBytes", count |-> c,
                                       relaxed |-> FALSE, result |-> "none"])
        /\ ledger' = ledger - c
        /\ UNCHANGED <<held, netDelta, refused>>

NextSeq == SeqTryAdd \/ SeqRun \/ SeqRemove

SpecSeq == InitSeq /\ [][NextSeq]_vars

----------------------------------------------------------------------------
(* SpecTen: limit 100, counter 0, ten goroutines make one call of           *)
(* TryAddBytes(15, false) each and nothing else runs.                       *)

InitTen == InitProcs(1..10, 100, 0, EmptyBag)

TenTryAdd(p) ==
    /\ result[p] = "none"
    /\ BeginTryAdd(p, 15, FALSE)
    /\ Fresh(p)
    /\ UNCHANGED <<held, ledger, history>>

NextTen ==
    \/ \E p \in Procs : TenTryAdd(p)
    \/ \E p \in Procs : Add(p)
    \/ \E p \in Procs : Rollback(p)

SpecTen == InitTen /\ [][NextTen]_vars

----------------------------------------------------------------------------
(* SpecFull: the counter stands at limit and no caller ever releases; the   *)
(* goroutines call WaitUntilAddBytes, whose context fires before or during  *)
(* the calls, or never.  A goroutine that can step steps eventually, the     *)
(* timer of line 82 fires eventually, and a select that finds ctx.Done()    *)
(* ready again and again takes that case eventually (it chooses uniformly   *)
(* among the ready cases).                                                  *)

InitFull ==
    \E l \in 1..MaxLimit :
        InitProcs(1..NumProcs, l, l, SetToBag({[count |-> l, relaxed |-> TRUE]}))

FullWait(p) ==
    \E c \in Counts, b \in BOOLEAN :
        /\ BeginWait(p, c, b)
        /\ Fresh(p)
        /\ UNCHANGED <<held, ledger, history>>

NextFull ==
    \/ \E p \in Procs : FullWait(p)
    \/ \E p \in Procs : Add(p)
    \/ \E p \in Procs : Rollback(p)
    \/ \E p \in Procs : Cancelled(p)
    \/ \E p \in Procs : Timer(p)
    \/ Fire

\* a step of the goroutine running the call of p
Step(p) == Add(p) \/ Rollback(p) \/ Cancelled(p) \/ Timer(p)

SpecFull ==
    /\ InitFull
    /\ [][NextFull]_vars
    /\ \A p \in 1..NumProcs : WF_vars(Step(p)) /\ SF_vars(Cancelled(p))


----------------------------------------------------------------------------
(* Properties *)

\* the threshold TryAddBytes(_, relaxed) tests against: limit when relaxed,
\* the truncated single-precision 0.75 x limit when strict
Threshold(relaxed) == IF relaxed THEN limit ELSE StrictLimit(limit)

\* the call of p returns in this step
Returns(p) == result[p] = "none" /\ result'[p] # "none"

\* C1: in a sequential run TryAddBytes(count, relaxed) that finds the counter
\* at v returns true and leaves v + count exactly when v + count is at most
\* the threshold of its mode, and otherwise returns false and leaves v.
\* (With one caller, value - netDelta[1] is the counter as the call found it.)
C1_SequentialTryAdd ==
    [][(op[1] = "TryAdd" /\ Returns(1)) =>
          LET v == value - netDelta[1] IN
          IF v + count[1] <= Threshold(useRelaxedLimit[1])
          THEN result'[1] = "true" /\ value' = v + count[1]
          ELSE result'[1] = "false" /\ value' = v]_vars

\* the sequential example: limit 100, TryAdd(100, true) -> true,
\* TryAdd(1, true) -> false, RemoveBytes(50), TryAdd(50, true) -> true (100)
C1_Witness ==
    /\ limit = 100 /\ value = 100
    /\ history = << [op |-> "TryAdd", count |-> 100, relaxed |-> TRUE, result |-> "true"],
                    [op |-> "TryAdd", count |-> 1, relaxed |-> TRUE, result |-> "false"],
                    [op |-> "RemoveBytes", count |-> 50, relaxed |-> FALSE, result |-> "none"],
                    [op |-> "TryAdd", count |-> 50, relaxed |-> TRUE, result |-> "true"] >>

\* C2: under any interleaving, a TryAddBytes returns true only if the counter
\* value its own atomic add produced (value' of the step that returns) is at
\* most the threshold of the mode it was called with.
C2_SuccessWithinThreshold ==
    [][\A p \in Procs :
          (op[p] = "TryAdd" /\ Returns(p) /\ result'[p] = "true")
              => value' <= Threshold(useRelaxedLimit[p])]_vars

\* a TryAddBytes has returned true while another call stands between its add
\* and its rollback
C2_Witness ==
    \E p, q \in Procs : result[p] = "true" /\ pc[q] = "rollback" /\ value > limit

\* C3: with positive counts and matched releases, the counts admitted by
\* TryAddBytes and WaitUntilAddBytes minus the counts released never exceed
\* limit.
C3_LedgerWithinLimit == ledger <= limit

\* the ledger is at limit while the counter is transiently above it
C3_Witness == ledger = limit /\ value > limit /\ BagCardinality(held) > 1

RECURSIVE HistorySum(_)
\* the counts of the TryAddBytes calls of h that returned true, minus the
\* counts of its RemoveBytes calls
HistorySum(h) ==
    IF h = << >> THEN 0
    ELSE LET c == Head(h) IN
         HistorySum(Tail(h))
           + (IF c.op = "TryAdd" /\ c.result = "true" THEN c.count ELSE 0)
           - (IF c.op = "RemoveBytes" THEN c.count ELSE 0)

\* C4: after any call of a sequence of TryAddBytes and RemoveBytes calls has
\* returned, the counter is the sum of the counts of the calls that returned
\* true minus the sum of the RemoveBytes counts; refused calls do not count.
C4_CounterIsHistorySum == pc[1] = "idle" => value = HistorySum(history)

\* a sequence with an admitted call, a refused call and a release
C4_Witness ==
    /\ pc[1] = "idle"
    /\ \E i, j, k \in 1..Len(history) :
          /\ history[i].op = "TryAdd" /\ history[i].result = "true"
          /\ history[j].op = "TryAdd" /\ history[j].result = "false"
          /\ history[k].op = "RemoveBytes"
    /\ value # 0

\* C5: a TryAddBytes that has returned false has changed the counter by zero
\* in all: its add and its rollback cancel.
C5_RefusedNetZero == \A p \in Procs : result[p] = "false" => netDelta[p] = 0

\* a refused call has returned while other callers' bytes are committed
C5_Witness == \E p \in Procs : result[p] = "false" /\ ledger > 0 /\ value = ledger

\* C6: limit 100, counter 0, ten concurrent TryAddBytes(15, false): once all
\* ten have returned, exactly 5 returned true, 5 returned false and the
\* counter is 75.
C6_TenCallers ==
    (\A p \in Procs : result[p] # "none") =>
        /\ Cardinality({p \in Procs : result[p] = "true"}) = 5
        /\ Cardinality({p \in Procs : result[p] = "false"}) = 5
        /\ value = 75

\* all ten calls have returned
C6_Witness == Cardinality(Procs) = 10 /\ \A p \in Procs : result[p] \in {"true", "false"}

RECURSIVE BagBytes(_, _)
\* the bytes of the admissions of bag b that lie in the set S
BagBytes(b, S) ==
    IF S = {} THEN 0
    ELSE LET r == CHOOSE x \in S : TRUE IN
         r.count * CopiesIn(r, b) + BagBytes(b, S \ {r})

\* the bytes outstanding that strict calls were admitted
StrictOutstanding == BagBytes(held, {r \in BagToSet(held) : ~r.relaxed})

\* C7: the bytes outstanding that were admitted by strict calls never exceed
\* the strict threshold, and no strict call returns success with the counter
\* its add produced above that threshold, while relaxed calls are admitted
\* up to limit.
C7_StrictReserve ==
    /\ [](StrictOutstanding <= StrictLimit(limit))
    /\ [][\A p \in Procs :
            (Admitted(p) /\ ~useRelaxedLimit[p]) => value' <= StrictLimit(limit)]_vars

\* strict admissions fill the strict threshold and relaxed ones the rest
C7_Witness ==
    /\ StrictOutstanding = StrictLimit(limit)
    /\ StrictLimit(limit) > 0
    /\ ledger = limit
    /\ limit > StrictLimit(limit)

\* C8: WaitUntilAddBytes returns an error only when its context has fired,
\* and the error is the one of that context; no other call returns an error.
C8_OnlyCancellationError ==
    [][\A p \in Procs :
          (Returns(p) /\ result'[p] \notin {"true", "false", "nil"})
              => op[p] = "Wait" /\ ctx \in Errors /\ result'[p] = ctx]_vars

\* a call has returned the error of a context whose deadline passed, after
\* another call under the same context was admitted
C8_Witness ==
    \E p, q \in Procs : result[p] = "DeadlineExceeded" /\ result[q] = "nil"

\* C9: a WaitUntilAddBytes that has returned the cancellation error has
\* changed the counter by zero in all, in the state it returns in and in
\* every state after it.
C9_CancelledNetZero == \A p \in Procs : result[p] \in Errors => netDelta[p] = 0

\* a cancelled call has returned while other callers' bytes are committed
C9_Witness == \E p \in Procs : result[p] \in Errors /\ ledger > 0 /\ value = ledger

\* C10: with the counter full and never released, a WaitUntilAddBytes whose
\* context has fired eventually returns the cancellation error, and no
\* WaitUntilAddBytes ever returns success.
C10_CancelledWaitReturns ==
    /\ [](\A p \in 1..NumProcs : result[p] # "nil")
    /\ \A p \in 1..NumProcs :
          (op[p] = "Wait" /\ ctx \in Errors) ~> (result[p] \in Errors)

\* a call has returned the cancellation error with the counter still full
C10_Witness == \E p \in Procs : result[p] \in Errors /\ value = limit /\ ledger = limit


\* C11 as stated: once the context has fired, a call that leaves its wait
\* step leaves it by returning the cancellation error, never by making
\* another attempt.
C11_CancelledNeverRetries ==
    [][\A p \in Procs :
          (pc[p] = "select" /\ ctx \in Errors /\ pc'[p] # "select")
              => result'[p] \in Errors]_vars

\* C11, amended: the cancellation error is returned only from the wait step,
\* with the context fired and the counter untouched, and a wait step that
\* finds the context fired can return it (the select may still take the
\* timer case when that is ready too); an attempt in progress is never cut
\* short: the step after the add is the add's own result, and a failed add
\* is followed by its rollback of exactly count.
C11_CancellationAtWaitStep ==
    /\ [](\A p \in Procs :
            (pc[p] = "select" /\ ctx \in Errors) => ENABLED Cancelled(p))
    /\ [][\A p \in Procs :
            /\ (Returns(p) /\ result'[p] \in Errors)
                  => pc[p] = "select" /\ ctx \in Errors /\ value' = value
            /\ (pc[p] = "add" /\ pc'[p] # "add")
                  => /\ value' = value + count[p]
                     /\ \/ pc'[p] = "rollback"
                        \/ result'[p] \in {"true", "nil"}
            /\ (pc[p] = "rollback" /\ pc'[p] # "rollback")
                  => /\ value' = value - count[p]
                     /\ \/ pc'[p] = "select"
                        \/ result'[p] = "false"]_vars

\* a call has returned the cancellation error while another call, under the
\* same fired context, stands between its add and its rollback
C11_Witness ==
    \E p, q \in Procs : result[p] \in Errors /\ op[q] = "Wait" /\ pc[q] = "rollback"


----------------------------------------------------------------------------
(* SpecRoom: the counter stands at limit; each goroutine calls               *)
(* WaitUntilAddBytes once, and the callers release what is held, the bytes  *)
(* the waiters were admitted included.  The context never fires.  A         *)
(* goroutine that can step steps eventually (the timer of line 82 fires     *)
(* after at most two seconds).                                              *)

InitRoom == InitFull

RoomWait(p) ==
    /\ result[p] = "none"
    /\ FullWait(p)

NextRoom ==
    \/ \E p \in Procs : RoomWait(p)
    \/ \E p \in Procs : Add(p)
    \/ \E p \in Procs : Rollback(p)
    \/ \E p \in Procs : Timer(p)
    \/ \E r \in BagToSet(held) : Release(r)

SpecRoom ==
    /\ InitRoom
    /\ [][NextRoom]_vars
    /\ \A p \in 1..NumProcs : WF_vars(Step(p))

\* the attempt p is about to make finds room: the counter plus its count is
\* within the threshold its predicate selected and no other call stands
\* between its add and its rollback
FindsRoom(p) ==
    pc[p] = "add" =>
        /\ value + count[p] <= Threshold(useRelaxedLimit[p])
        /\ \A q \in Procs \ {p} : pc[q] # "rollback"

\* C12: if the context never fires and from some point on every attempt of a
\* WaitUntilAddBytes finds room, the call eventually returns success; and it
\* returns success only in the step of an add of its own whose result is
\* within the threshold.
C12_WaitSucceedsOnceRoom ==
    /\ \A p \in 1..NumProcs :
          ([](ctx = "none") /\ <>[]FindsRoom(p))
              => ((op[p] = "Wait") ~> (result[p] = "nil"))
    /\ [][\A p \in Procs :
            (Returns(p) /\ result'[p] = "nil")
                => /\ op[p] = "Wait" /\ pc[p] = "add"
                   /\ value' = value + count[p]
                   /\ value' <= Threshold(useRelaxedLimit[p])]_vars

\* a WaitUntilAddBytes has returned success after an attempt of its own was
\* refused and rolled back
C12_Witness ==
    \E p \in Procs : result[p] = "nil" /\ refused[p] /\ ctx = "none"

\* C13: a TryAddBytes call is never suspended: it stands only before its add
\* or before its rollback, that step can always be taken whatever the counter
\* and the other callers, the add either returns true or leads to the one
\* rollback, and the rollback returns false.  RemoveBytes of held bytes can
\* always be taken and is one subtraction that involves no position of any
\* call.  Only WaitUntilAddBytes stands at the select.
C13_NeverBlock ==
    /\ [](\A p \in Procs :
            /\ op[p] = "TryAdd" => pc[p] \in {"add", "rollback"}
            /\ (op[p] = "TryAdd" /\ pc[p] = "add") => ENABLED Add(p)
            /\ (op[p] = "TryAdd" /\ pc[p] = "rollback") => ENABLED Rollback(p)
            /\ pc[p] = "select" => op[p] = "Wait")
    /\ [](\A r \in BagToSet(held) : ENABLED Release(r))
    /\ [][\A p \in Procs :
            (op[p] = "TryAdd" /\ pc'[p] # pc[p])
                => \/ /\ pc[p] = "add"
                      /\ value' = value + count[p]
                      /\ \/ pc'[p] = "rollback"
                         \/ Returns(p) /\ result'[p] = "true"
                   \/ /\ pc[p] = "rollback"
                      /\ value' = value - count[p]
                      /\ Returns(p) /\ result'[p] = "false"]_vars
    /\ [][BagCardinality(held') < BagCardinality(held)
            => /\ value' = value - (ledger - ledger')
               /\ BagCardinality(held') = BagCardinality(held) - 1
               /\ pc' = pc /\ result' = result]_vars

\* a TryAddBytes has returned false, after its add and its rollback, while
\* another TryAddBytes stands between its add and its rollback and an
\* admission is held
C13_Witness ==
    \E p, q \in Procs :
        /\ result[p] = "false"
        /\ op[q] = "TryAdd" /\ pc[q] = "rollback"
        /\ held # EmptyBag

RECURSIVE CountSum(_)
\* the counts of the calls of the goroutines in S
CountSum(S) ==
    IF S = {} THEN 0
    ELSE LET p == CHOOSE x \in S : TRUE IN count[p] + CountSum(S \ {p})

\* the bytes of the calls that stand between their add and their rollback
InFlight == CountSum({p \in Procs : pc[p] = "rollback"})

\* C14 as stated: whenever the counter is above limit, some call in flight has
\* a count that covers the whole excess.
C14_OvershootOneCount ==
    value > limit => \E p \in Procs : pc[p] # "idle" /\ value - limit <= count[p]

\* C14: the counter is the admitted bytes not yet released plus the counts of
\* the calls that stand between their add and their rollback, so it exceeds
\* limit by at most the sum of those counts.
C14_OvershootInFlight ==
    /\ value = ledger + InFlight
    /\ value - limit <= InFlight

\* the counter exceeds limit by more than any one count: two refused calls
\* stand between their add and their rollback
C14_Witness ==
    /\ value - limit > MaxCount
    /\ Cardinality({p \in Procs : pc[p] = "rollback"}) >= 2

\* C15: a WaitUntilAddBytes that returns success has changed the counter by
\* exactly its count over the whole call, whatever number of attempts it
\* made: between attempts its net change is zero (every refused attempt was
\* rolled back in full) and the attempt that returns success adds count.
C15_WaitAddsCountOnce ==
    /\ [](\A p \in Procs :
            (op[p] = "Wait" /\ pc[p] \in {"add", "select"}) => netDelta[p] = 0)
    /\ [][\A p \in Procs :
            (Returns(p) /\ result'[p] = "nil")
                => /\ netDelta'[p] = count[p]
                   /\ value' = value + count[p]]_vars

\* a WaitUntilAddBytes has returned success with its largest count after a
\* refused attempt
C15_Witness ==
    \E p \in Procs : result[p] = "nil" /\ refused[p] /\ netDelta[p] = MaxCount

----------------------------------------------------------------------------
(* SpecEscalate: v bytes are held from the start and nobody ever releases;  *)
(* the goroutines call WaitUntilAddBytes with Predicates whose answer may   *)
(* change from one attempt to the next.                                     *)

InitEscalate ==
    \E l \in 1..MaxLimit, v \in 0..MaxLimit :
        /\ v <= l
        /\ InitProcs(1..NumProcs, l, v,
                     IF v = 0 THEN EmptyBag
                     ELSE SetToBag({[count |-> v, relaxed |-> TRUE]}))

NextEscalate ==
    \/ \E p \in Procs : FullWait(p)
    \/ \E p \in Procs : Add(p)
    \/ \E p \in Procs : Rollback(p)
    \/ \E p \in Procs : Timer(p)

SpecEscalate == InitEscalate /\ [][NextEscalate]_vars

\* C16: every attempt of a WaitUntilAddBytes tests against the threshold of
\* the answer its Predicate gave for that attempt, an answer that stays put
\* during the attempt: the attempt returns success exactly when the counter
\* plus count is within that threshold.  So a call that was refused, whose
\* Predicate now answers true, and that finds strict threshold < counter +
\* count <= limit is admitted by that very attempt; no RemoveBytes occurs in
\* SpecEscalate.
C16_PredicatePerAttempt ==
    /\ [][\A p \in Procs :
            (op[p] = "Wait" /\ pc[p] = "add" /\ pc'[p] # "add")
                => /\ value' = value + count[p]
                   /\ IF value + count[p] <= Threshold(useRelaxedLimit[p])
                      THEN result'[p] = "nil"
                      ELSE /\ pc'[p] = "rollback"
                           /\ useRelaxedLimit'[p] = useRelaxedLimit[p]]_vars
    /\ [][\A p \in Procs :
            (/\ op[p] = "Wait" /\ pc[p] = "add" /\ pc'[p] # "add"
             /\ refused[p] /\ useRelaxedLimit[p]
             /\ StrictLimit(limit) < value + count[p]
             /\ value + count[p] <= limit)
                => result'[p] = "nil" /\ netDelta'[p] = count[p]]_vars

\* the only call ever made was refused and has then returned success with
\* the counter above the strict threshold
C16_Witness ==
    \E p \in Procs :
        /\ result[p] = "nil" /\ refused[p]
        /\ value > StrictLimit(limit)
        /\ value = ledger
        /\ \A q \in Procs \ {p} : pc[q] = "idle" /\ result[q] = "none"

\* C17 as stated: a TryAddBytes with a negative count has lowered the counter
\* by |count| when it returns, as RemoveBytes(|count|) does.
C17_NegativeCountReleases ==
    [][(op[1] = "TryAdd" /\ count[1] < 0 /\ Returns(1))
          => value' = (value - netDelta[1]) - Abs(count[1])]_vars

\* C17: a TryAddBytes with a negative count that finds the counter at v
\* lowers it by |count| and returns true when v + count is at most the
\* threshold of its mode; otherwise it returns false and leaves v.
C17_NegativeCountWithinThreshold ==
    [][(op[1] = "TryAdd" /\ count[1] < 0 /\ Returns(1)) =>
          LET v == value - netDelta[1] IN
          IF v - Abs(count[1]) <= Threshold(useRelaxedLimit[1])
          THEN result'[1] = "true" /\ value' = v - Abs(count[1])
          ELSE result'[1] = "false" /\ value' = v]_vars

\* with the counter at limit after a relaxed admission, a strict TryAddBytes
\* with a negative count has returned false and released nothing
C17_Witness ==
    /\ value = limit
    /\ history = << [op |-> "TryAdd", count |-> 100, relaxed |-> TRUE, result |-> "true"],
                    [op |-> "TryAdd", count |-> -1, relaxed |-> FALSE, result |-> "false"] >>

----------------------------------------------------------------------------
(* SpecLimit: NewCacheLimiter takes any int64, so the limit is drawn from   *)
(* small limits of either sign and from limits around the sizes where       *)
(* single precision stops being exact; one TryAddBytes with a count next to *)
(* a threshold, then the release of what it was admitted.                   *)

\* 0.75 x l truncated toward zero, in exact arithmetic
Trunc34(l) == IF l >= 0 THEN (3 * l) \div 4 ELSE -((3 * (-l)) \div 4)

LimitSamples ==
    (-MaxLimit..MaxLimit)
        \cup {100, 5592405, 5592408, 5592409, 16777216, 16777217, 33554435}

InitLimit == \E l \in LimitSamples : InitProcs({1}, l, 0, EmptyBag)

LimitTryAdd ==
    \E c \in {Trunc34(limit), Trunc34(limit) + 1, limit, limit + 1},
       relaxed \in BOOLEAN :
        /\ result[1] = "none"
        /\ BeginTryAdd(1, c, relaxed)
        /\ Fresh(1)
        /\ UNCHANGED <<held, ledger, history>>

NextLimit ==
    \/ LimitTryAdd
    \/ Add(1)
    \/ Rollback(1)
    \/ \E r \in BagToSet(held) : Release(r)

SpecLimit == InitLimit /\ [][NextLimit]_vars

\* C18 as stated, on the positive limits the callers are expected to give:
\* the threshold a TryAddBytes tests against is limit when relaxed and the
\* exact 0.75 x limit truncated toward zero when strict, and the former is
\* greater than the latter.
C18_ThresholdsExact ==
    limit > 0 =>
        /\ \A p \in Procs :
              pc[p] = "add" =>
                  lim[p] = IF useRelaxedLimit[p] THEN limit ELSE Trunc34(limit)
        /\ limit > Trunc34(limit)

\* C18: the threshold a TryAddBytes tests against is limit when relaxed and
\* the single-precision product float32(limit) * 0.75 truncated toward zero
\* when strict; that is the exact 0.75 x limit truncated toward zero when
\* 0.75 x |limit| is below 2^22, and a call is then admitted exactly when the
\* counter its add produces is at most that; for a positive limit the relaxed
\* threshold is greater than the strict one; no step changes limit.
C18_ThresholdsSinglePrecision ==
    /\ [](\A p \in Procs :
            pc[p] = "add" =>
                lim[p] = IF useRelaxedLimit[p] THEN limit ELSE StrictLimit(limit))
    /\ [](3 * Abs(limit) < 4 * 2^22 => StrictLimit(limit) = Trunc34(limit))
    /\ [](limit > 0 => limit > StrictLimit(limit))
    /\ [][\A p \in Procs :
            (pc[p] = "add" /\ pc'[p] # "add" /\ 3 * Abs(limit) < 4 * 2^22)
                => (result'[p] = "true"
                      <=> value' <= IF useRelaxedLimit[p] THEN limit
                                    ELSE Trunc34(limit))]_vars
    /\ [][limit' = limit]_vars

\* on limit 5592409 a strict TryAddBytes was admitted 4194307 bytes, one more
\* than the exact 0.75 x limit truncated
C18_Witness ==
    /\ limit = 5592409
    /\ result[1] = "true"
    /\ value = Trunc34(limit) + 1
    /\ held = SetToBag({[count |-> value, relaxed |-> FALSE]})

----------------------------------------------------------------------------
(* SpecFired: the context has fired before any call is made; v bytes are    *)
(* held from the start; the goroutines call WaitUntilAddBytes and the       *)
(* callers release what is held.                                            *)

InitFired ==
    \E l \in 1..MaxLimit, v \in 0..MaxLimit, e \in Errors :
        /\ v <= l
        /\ limit = l
        /\ value = v
        /\ pc = [p \in 1..NumProcs |-> "idle"]
        /\ op = [p \in 1..NumProcs |-> "none"]
        /\ count = [p \in 1..NumProcs |-> 0]
        /\ useRelaxedLimit = [p \in 1..NumProcs |-> FALSE]
        /\ lim = [p \in 1..NumProcs |-> 0]
        /\ result = [p \in 1..NumProcs |-> "none"]
        /\ ctx = e
        /\ held = IF v = 0 THEN EmptyBag
                  ELSE SetToBag({[count |-> v, relaxed |-> TRUE]})
        /\ ledger = v
        /\ netDelta = [p \in 1..NumProcs |-> 0]
        /\ refused = [p \in 1..NumProcs |-> FALSE]
        /\ history = << >>

NextFired ==
    \/ \E p \in Procs : RoomWait(p)
    \/ \E p \in Procs : Add(p)
    \/ \E p \in Procs : Rollback(p)
    \/ \E p \in Procs : Cancelled(p)
    \/ \E p \in Procs : Timer(p)
    \/ \E r \in BagToSet(held) : Release(r)

SpecFired == InitFired /\ [][NextFired]_vars

\* C19: a WaitUntilAddBytes makes its first attempt before it looks at the
\* context: until an attempt of its was refused it stands before its add,
\* and it returns the context's error only after a refused attempt.  Called
\* with a context that has fired, with the counter plus count within the
\* threshold and no other call in flight, its first attempt returns success
\* and raises the counter by count.
C19_AttemptBeforeContext ==
    /\ [](\A p \in Procs :
            /\ (op[p] = "Wait" /\ ~refused[p]) => pc[p] = "add"
            /\ result[p] \in Errors => refused[p])
    /\ [][\A p \in Procs :
            (/\ op[p] = "Wait" /\ pc[p] = "add" /\ ~refused[p]
             /\ ctx \in Errors
             /\ value + count[p] <= Threshold(useRelaxedLimit[p])
             /\ \A q \in Procs \ {p} : pc[q] = "idle"
             /\ pc'[p] # "add")
                => /\ result'[p] = "nil"
                   /\ value' = value + count[p]
                   /\ netDelta'[p] = count[p]]_vars

\* under a context that had fired before, the only call ever made has
\* returned success at its first attempt, next to bytes held from the start
C19_Witness ==
    \E p \in Procs :
        /\ ctx \in Errors
        /\ result[p] = "nil" /\ ~refused[p]
        /\ netDelta[p] > 0 /\ value > netDelta[p]
        /\ \A q \in Procs \ {p} : pc[q] = "idle" /\ result[q] = "none"

\* C20: with positive counts and matched releases the counter is never
\* negative, in the states between an add and its rollback as in any other.
C20_CounterNeverNegative == value >= 0

\* everything admitted has been released, and the counter holds only the
\* count of a refused call that stands between its add and its rollback
C20_Witness ==
    /\ held = EmptyBag /\ ledger = 0
    /\ \E p, q \in Procs :
          /\ result[p] \in {"true", "nil"}
          /\ pc[q] = "rollback" /\ value = count[q]

====
